---- MODULE Spec2Model ----
(***************************************************************************)
(* Exponential ElGamal (src/src/encrypt/elgamal.rs) and the KZG range      *)
(* proof (src/src/range_proof/mod.rs) over a prime-order pairing group.    *)
(*                                                                         *)
(* The group G1 is cyclic of prime order Q, so it is modelled as the       *)
(* additive group Z_Q: a point is its residue, point addition is addition  *)
(* mod Q, scalar multiplication is multiplication mod Q, and the           *)
(* designated generator is the residue GEN.  The scalar field is F_Q.      *)
(***************************************************************************)
EXTENDS Integers, Sequences, FiniteSets, TLC

\* ------------------------------------------------------------------------
\* Bounds of the model
\* ------------------------------------------------------------------------
\* width in bits of the brute-force search bound (32 in the code)
U32_BITS == 3
\* how many ciphertexts are summed at most
MaxTerms == 2
\* the rng draws r, alpha, beta from 0 .. MaxBlind
MaxBlind == 1

\* ------------------------------------------------------------------------
\* Scalar field and group
\* ------------------------------------------------------------------------
\* order of C::ScalarField (prime, larger than 2^U32_BITS)
Q == 17
\* residue of <C::Affine as AffineRepr>::generator()
GEN == 3

F == 0 .. (Q - 1)

FAdd(a, b) == (a + b) % Q
FSub(a, b) == (a + Q - b) % Q
FMul(a, b) == (a * b) % Q

\* C::Affine + C::Affine, C::Affine - C::Affine, C::Affine * C::ScalarField
PointAdd(p, q) == (p + q) % Q
PointSub(p, q) == (p + Q - q) % Q
ScalarMul(p, k) == (p * k) % Q

\* ------------------------------------------------------------------------
\* ElGamal: Cipher, encrypt_with_randomness, decrypt_exp, brute_force
\* ------------------------------------------------------------------------
c0(cipher) == cipher[1]
c1(cipher) == cipher[2]

CipherAdd_swapped(self, rhs) ==
    << PointAdd(c0(self), c0(rhs)), PointAdd(c1(self), c0(rhs)) >>

\* impl Add for Cipher
CipherAdd(self, rhs) ==
    << PointAdd(c0(self), c0(rhs)), PointAdd(c1(self), c1(rhs)) >>

encrypt_no_secret(data, key, randomness) ==
    LET c1_ == ScalarMul(GEN, randomness)
        c2_ == ScalarMul(GEN, data)
    IN  << c1_, c2_ >>

encrypt_with_randomness(data, key, randomness) ==
    LET shared_secret == ScalarMul(key, randomness)
        c1_ == ScalarMul(GEN, randomness)
        c2_ == PointAdd(ScalarMul(GEN, data), shared_secret)
    IN  << c1_, c2_ >>

decrypt_exp(cipher, key) ==
    LET shared_secret == ScalarMul(c0(cipher), key)
    IN  PointSub(c1(cipher), shared_secret)

\* C::ScalarField::from(u32::MAX)
U32_MAX == 2 ^ U32_BITS - 1

RECURSIVE brute_force_loop(_, _, _)
brute_force_loop(decrypted, exponent, max) ==
    IF ScalarMul(GEN, exponent) # decrypted /\ exponent < max
    THEN brute_force_loop(decrypted, FAdd(exponent, 1), max)
    ELSE exponent

brute_force_short(decrypted) == brute_force_loop(decrypted, 0, U32_MAX - 1)

brute_force(decrypted) == brute_force_loop(decrypted, 0, U32_MAX)

\* EncryptionEngine::decrypt
decrypt(cipher, key) == brute_force(decrypt_exp(cipher, key))

\* ------------------------------------------------------------------------
\* State
\* ------------------------------------------------------------------------
VARIABLES
    eg_pc,      \* "off" | "keygen" | "cipher" | "exp" | "done"
    sk,         \* decryption key
    cipher,     \* the ciphertext held (a sum of encryptions)
    plain,      \* sum of the encrypted plaintexts, in F
    nonce,      \* sum of the nonces, in F
    terms,      \* number of ciphertexts summed
    key,        \* key handed to decrypt_exp / decrypt
    decrypted,  \* result of decrypt_exp
    exponent    \* result of brute_force

egvars == << eg_pc, sk, cipher, plain, nonce, terms, key, decrypted, exponent >>

VARIABLES
    oracle            \* transcript -> scalar, the oracle queries answered so far

VARIABLES
    rp_pc,            \* "off" | "setup" | "proved" | "aborted" | "verified" | "vaborted"
    rp_n,             \* range parameter handed to RangeProof::new
    rp_z,             \* the witness z
    rnd,              \* << r, alpha, beta >> drawn from the rng
    srs_tau,          \* the "secret" tau of unsafe_setup
    proof,            \* the RangeProof record
    abort_msg,        \* panic message of an aborted call
    prover_hasher,    \* transcript of RangeProof::new
    verifier_hasher,  \* transcript of RangeProof::verify
    p_chal,           \* << tau, rho, aggregation_challenge >> of the prover
    v_chal,           \* the same of the verifier
    v_n,              \* range parameter handed to verify
    v_len,            \* number of G1 powers handed to verify
    verdict,          \* value returned by verify
    forged            \* whether a field of the record was overwritten

rpvars == << oracle, rp_pc, rp_n, rp_z, rnd, srs_tau, proof, abort_msg, prover_hasher,
             verifier_hasher, p_chal, v_chal, v_n, v_len, verdict, forged >>

vars == << egvars, rpvars >>

NoCipher == << 0, 0 >>

pk == ScalarMul(GEN, sk)

\* encrypt: a fresh nonce, then encrypt_with_randomness
Encrypt ==
    /\ eg_pc = "keygen"
    /\ \E data \in F, random_nonce \in F :
        /\ cipher' = encrypt_with_randomness(data, pk, random_nonce)
        /\ plain' = data
        /\ nonce' = random_nonce
    /\ terms' = 1
    /\ eg_pc' = "cipher"
    /\ UNCHANGED << sk, key, decrypted, exponent >>
    /\ UNCHANGED rpvars

\* esum + e  (the held sum on the left)
AddRight ==
    /\ eg_pc = "cipher" /\ terms < MaxTerms
    /\ \E data \in F, randomness \in F :
        /\ cipher' = CipherAdd(cipher, encrypt_with_randomness(data, pk, randomness))
        /\ plain' = FAdd(plain, data)
        /\ nonce' = FAdd(nonce, randomness)
    /\ terms' = terms + 1
    /\ UNCHANGED << eg_pc, sk, key, decrypted, exponent >>
    /\ UNCHANGED rpvars

\* e + esum  (the held sum on the right)
AddLeft ==
    /\ eg_pc = "cipher" /\ terms < MaxTerms
    /\ \E data \in F, randomness \in F :
        /\ cipher' = CipherAdd(encrypt_with_randomness(data, pk, randomness), cipher)
        /\ plain' = FAdd(data, plain)
        /\ nonce' = FAdd(randomness, nonce)
    /\ terms' = terms + 1
    /\ UNCHANGED << eg_pc, sk, key, decrypted, exponent >>
    /\ UNCHANGED rpvars

DecryptExp ==
    /\ eg_pc = "cipher"
    /\ \E k \in F :
        /\ key' = k
        /\ decrypted' = decrypt_exp(cipher, k)
    /\ eg_pc' = "exp"
    /\ UNCHANGED << sk, cipher, plain, nonce, terms, exponent >>
    /\ UNCHANGED rpvars

Decrypt ==
    /\ eg_pc = "cipher"
    /\ \E k \in F :
        /\ key' = k
        /\ decrypted' = decrypt_exp(cipher, k)
        /\ exponent' = decrypt(cipher, k)
    /\ eg_pc' = "done"
    /\ UNCHANGED << sk, cipher, plain, nonce, terms >>
    /\ UNCHANGED rpvars

\* ------------------------------------------------------------------------
\* Field helpers, evaluation domains and dense polynomials
\* ------------------------------------------------------------------------
RECURSIVE FPow(_, _)
FPow(a, e) == IF e = 0 THEN 1 ELSE FMul(a, FPow(a, e - 1))

FInv(a) == FPow(a, Q - 2)
FNeg(a) == (Q - a) % Q

\* sum of fn[i] for i in a..b, in F
RECURSIVE FSum(_, _, _)
FSum(fn, a, b) == IF a > b THEN 0 ELSE (fn[a] + FSum(fn, a + 1, b)) % Q

\* 2-adicity of Q - 1 and a primitive 2^TWO_ADICITY-th root of unity
TWO_ADICITY == 4
TWO_ADIC_ROOT_OF_UNITY == 3

RECURSIVE NextPowerOfTwo(_, _)
NextPowerOfTwo(n, p) == IF p >= n THEN p ELSE NextPowerOfTwo(n, 2 * p)

RECURSIVE Log2(_)
Log2(p) == IF p <= 1 THEN 0 ELSE 1 + Log2(p \div 2)

\* GeneralEvaluationDomain::new(n): the radix-2 domain of the next power of
\* two, or None when the field has no subgroup of that size
Domain(n) ==
    LET size == NextPowerOfTwo(n, 1)
    IN  IF Log2(size) > TWO_ADICITY
        THEN [ok |-> FALSE, size |-> 0, group_gen |-> 0]
        ELSE [ok |-> TRUE, size |-> size,
              group_gen |-> FPow(TWO_ADIC_ROOT_OF_UNITY,
                                 2 ^ (TWO_ADICITY - Log2(size)))]

\* a polynomial is the sequence of its coefficients, constant term first;
\* AsSeq turns a function on 1 .. n into the tuple of its values
AsSeq(fn) == fn \o << >>

Coef(p, k) == IF k + 1 <= Len(p) THEN p[k + 1] ELSE 0

Max(a, b) == IF a >= b THEN a ELSE b
Min(a, b) == IF a <= b THEN a ELSE b

RECURSIVE Trim(_)
Trim(p) == IF Len(p) > 0 /\ p[Len(p)] = 0 THEN Trim(SubSeq(p, 1, Len(p) - 1)) ELSE p

\* degree of the polynomial, -1 for the zero polynomial
Degree(p) == Len(Trim(p)) - 1

PolyAdd(p, q) ==
    AsSeq([k \in 1 .. Max(Len(p), Len(q)) |-> FAdd(Coef(p, k - 1), Coef(q, k - 1))])
PolySub(p, q) ==
    AsSeq([k \in 1 .. Max(Len(p), Len(q)) |-> FSub(Coef(p, k - 1), Coef(q, k - 1))])
PolyScale(p, c) == AsSeq([k \in 1 .. Len(p) |-> FMul(p[k], c)])

PolyMul(p, q) ==
    IF Len(p) = 0 \/ Len(q) = 0 THEN << >>
    ELSE AsSeq([k \in 1 .. (Len(p) + Len(q) - 1) |->
            FSum([i \in Max(1, k + 1 - Len(q)) .. Min(k, Len(p)) |-> p[i] * q[k + 1 - i]],
                 Max(1, k + 1 - Len(q)), Min(k, Len(p)))])

\* Polynomial::evaluate
RECURSIVE EvalFrom(_, _, _)
EvalFrom(p, x, k) == IF k > Len(p) THEN 0 ELSE FAdd(p[k], FMul(x, EvalFrom(p, x, k + 1)))

Evaluate(p, x) == EvalFrom(p, x, 1)

\* vanishing polynomial X^size - 1 of the domain
VanishingPoly(size) ==
    AsSeq([k \in 1 .. (size + 1) |-> IF k = 1 THEN Q - 1 ELSE IF k = size + 1 THEN 1 ELSE 0])

\* inverse DFT of evals (evals[i] is the value at omega^(i-1))
Interpolate(domain, evals) ==
    LET n == domain.size
        winv == FInv(domain.group_gen)
        ninv == FInv(n % Q)
    IN  AsSeq([k \in 1 .. n |->
            FMul(ninv, FSum([i \in 1 .. n |-> evals[i] * FPow(winv, ((i - 1) * (k - 1)) % n)],
                            1, n))])

\* Lagrange selectors of the first and of the last point of the domain
LagrangeFirst(domain) == AsSeq([k \in 1 .. domain.size |-> FInv(domain.size % Q)])
LagrangeLast(domain) ==
    AsSeq([k \in 1 .. domain.size |->
        FMul(FInv(domain.size % Q), FPow(domain.group_gen, k - 1))])

\* omega^(n-1), the last element of the domain
LastRoot(domain) == FPow(domain.group_gen, domain.size - 1)

\* ------------------------------------------------------------------------
\* range_proof::poly
\* ------------------------------------------------------------------------
\* f(omega^i) = z on the domain, blinded by r * Z_H
poly_f(domain, z, r) ==
    PolyAdd(Interpolate(domain, AsSeq([i \in 1 .. domain.size |-> z])),
            PolyScale(VanishingPoly(domain.size), r))

\* partial sums of the bits of z from the top: g_(n-1) = b_(n-1),
\* g_i = 2 g_(i+1) + b_i
RECURSIVE g_evals(_, _, _)
g_evals(z, i, n) ==
    LET bit == (z \div (2 ^ i)) % 2
    IN  IF i = n - 1 THEN bit ELSE FAdd(FMul(2, g_evals(z, i + 1, n)), bit)

poly_g(domain, z, alpha, beta) ==
    PolyAdd(Interpolate(domain,
                        AsSeq([i \in 1 .. domain.size |-> g_evals(z, i - 1, domain.size)])),
            PolyMul(<< alpha, beta >>, VanishingPoly(domain.size)))

\* W1 = (f - g) * L_0,  W2 = g (1 - g) * L_(n-1)
poly_w1_w2(domain, f_poly, g_poly) ==
    << PolyMul(PolySub(f_poly, g_poly), LagrangeFirst(domain)),
       PolyMul(PolyMul(g_poly, PolySub(<< 1 >>, g_poly)), LagrangeLast(domain)) >>

\* g(omega X)
PolyShift(p, w) == AsSeq([k \in 1 .. Len(p) |-> FMul(p[k], FPow(w, k - 1))])

\* W3 = (g(X) - 2 g(omega X)) (1 - (g(X) - 2 g(omega X))) (X - omega^(n-1))
poly_w3(domain, domain_2n, g_poly) ==
    LET part_a == PolySub(g_poly, PolyScale(PolyShift(g_poly, domain.group_gen), 2))
        part_b == PolySub(<< 1 >>, part_a)
        part_c == << FNeg(LastRoot(domain)), 1 >>
    IN  PolyMul(PolyMul(part_a, part_b), part_c)

\* division by X^n - 1: coefficient k of the quotient, coefficient j of the
\* remainder
RECURSIVE FoldFrom(_, _, _)
FoldFrom(p, k, n) == IF k > Len(p) THEN 0 ELSE FAdd(p[k], FoldFrom(p, k + n, n))

DivideByVanishing(p, n) ==
    [q |-> AsSeq([k \in 1 .. Max(Len(p) - n, 0) |-> FoldFrom(p, k + n, n)]),
     r |-> AsSeq([j \in 1 .. Min(n, Len(p)) |-> FoldFrom(p, j, n)])]

\* q = (W1 + tau W2 + tau^2 W3) / Z_H; the remainder must be zero
poly_quotient(domain, w1_poly, w2_poly, w3_poly, tau) ==
    LET w_poly == PolyAdd(PolyAdd(w1_poly, PolyScale(w2_poly, tau)),
                          PolyScale(w3_poly, FMul(tau, tau)))
        d == DivideByVanishing(w_poly, domain.size)
    IN  IF Degree(d.r) = -1
        THEN [ok |-> TRUE, q |-> d.q]
        ELSE [ok |-> FALSE, q |-> << >>]

\* w_cap(X) = L_0(rho) f(X) - Z_H(rho) q(X)
poly_w_cap(domain, f_poly, q_poly, rho) ==
    PolySub(PolyScale(f_poly, Evaluate(LagrangeFirst(domain), rho)),
            PolyScale(q_poly, Evaluate(VanishingPoly(domain.size), rho)))

\* ------------------------------------------------------------------------
\* commit::kzg  (G2 is Z_Q as well, the pairing is the product of residues)
\* ------------------------------------------------------------------------
\* residue of the G2 generator
GEN2 == 5

Pairing(a, b) == (a * b) % Q

\* Powers::unsafe_setup(tau, range): range powers of tau in G1, two in G2
unsafe_setup(tau, range) ==
    [g1 |-> AsSeq([i \in 1 .. range |-> ScalarMul(GEN, FPow(tau, i - 1))]),
     g2 |-> << GEN2, ScalarMul(GEN2, tau) >>]

\* commit_g1: the multi-scalar multiplication of the coefficients with the
\* powers; fails when the polynomial has more coefficients than powers
commit_g1(powers, p) ==
    IF Degree(p) + 1 > Len(powers.g1)
    THEN [ok |-> FALSE, c |-> 0]
    ELSE [ok |-> TRUE,
          c |-> FSum([i \in 1 .. Len(p) |->
                        IF i <= Len(powers.g1) THEN powers.g1[i] * p[i] ELSE 0],
                     1, Len(p))]

\* witness polynomial (p(X) - p(u)) / (X - u), by synthetic division
RECURSIVE SyntheticFrom(_, _, _)
SyntheticFrom(p, u, k) ==
    IF k > Len(p) THEN 0 ELSE FAdd(p[k], FMul(u, SyntheticFrom(p, u, k + 1)))

kzg_witness(p, u) == AsSeq([k \in 1 .. Max(Len(p) - 1, 0) |-> SyntheticFrom(p, u, k + 1)])

\* sum of gamma^(i-1) * items[i]
RECURSIVE aggregate(_, _)
aggregate(items, gamma) ==
    IF Len(items) = 0 THEN 0
    ELSE FAdd(Head(items), FMul(gamma, aggregate(Tail(items), gamma)))

RECURSIVE aggregate_poly(_, _)
aggregate_poly(polys, gamma) ==
    IF Len(polys) = 0 THEN << >>
    ELSE PolyAdd(Head(polys), PolyScale(aggregate_poly(Tail(polys), gamma), gamma))

kzg_aggregate_witness(polys, u, gamma) == kzg_witness(aggregate_poly(polys, gamma), u)

\* e(proof, tau h - point h) = e(commitment - value g, h)
verify_scalar(proof_, commitment, point, value, powers) ==
    Pairing(proof_, PointSub(powers.g2[2], ScalarMul(powers.g2[1], point)))
        = Pairing(PointSub(commitment, ScalarMul(powers.g1[1], value)), powers.g2[1])

\* ------------------------------------------------------------------------
\* range_proof::utils
\* ------------------------------------------------------------------------
\* commitment of w_cap: L_0(rho) [F] - Z_H(rho) [Q]
utils_w_cap(size, f_commitment, q_commitment, rho) ==
    LET d == Domain(size)
    IN  PointSub(ScalarMul(f_commitment, Evaluate(LagrangeFirst(d), rho)),
                 ScalarMul(q_commitment, Evaluate(VanishingPoly(size), rho)))

\* the value w_cap(rho) must take, from g(rho) and g(rho omega)
w1_w2_w3_evals_sum(domain, g_eval, g_omega_eval, rho, tau) ==
    LET w1_eval == FMul(g_eval, Evaluate(LagrangeFirst(domain), rho))
        w2_eval == FMul(FMul(g_eval, FSub(1, g_eval)), Evaluate(LagrangeLast(domain), rho))
        part_a == FSub(g_eval, FMul(2, g_omega_eval))
        w3_eval == FMul(FMul(part_a, FSub(1, part_a)), FSub(rho, LastRoot(domain)))
    IN  FSub(FSub(w1_eval, FMul(tau, w2_eval)), FMul(FMul(tau, tau), w3_eval))

\* ------------------------------------------------------------------------
\* hash::Hasher: the transcript is the sequence of the operations applied to
\* it; a squeezed scalar is a function of the transcript up to and including
\* the squeeze (a random oracle, sampled when first queried)
\* ------------------------------------------------------------------------
PROOF_DOMAIN_SEP == "fde range proof"

hasher_new == << >>
hasher_update(hasher, data) == Append(hasher, << "update", data >>)
hasher_squeeze(hasher, label) == Append(hasher, << "next_scalar", label >>)
next_scalar(hasher, label, fresh) ==
    IF hasher_squeeze(hasher, label) \in DOMAIN oracle
    THEN oracle[hasher_squeeze(hasher, label)]
    ELSE fresh

\* the oracle after the queries keys[i] were answered by vals[i]
OracleWith(keys, vals) ==
    [k \in DOMAIN oracle \cup {keys[i] : i \in 1 .. Len(keys)} |->
        IF k \in DOMAIN oracle THEN oracle[k]
        ELSE vals[CHOOSE i \in 1 .. Len(keys) : keys[i] = k]]

\* ------------------------------------------------------------------------
\* RangeProof::new and RangeProof::verify
\* ------------------------------------------------------------------------
NoProof ==
    [evaluations |-> [g |-> 0, g_omega |-> 0, w_cap |-> 0],
     commitments |-> [f |-> 0, g |-> 0, q |-> 0],
     proofs |-> [aggregate |-> 0, shifted |-> 0]]

NewAbort(msg, hasher) ==
    [ok |-> FALSE, msg |-> msg, proof |-> NoProof, hasher |-> hasher,
     chal |-> << >>, keys |-> << >>]

\* the part of RangeProof::new that no challenge enters: the domains, f, g,
\* their commitments and the constraint polynomials W1, W2, W3
NewPolys(z, n, powers, r, alpha, beta) ==
    LET domain == Domain(n)
        domain_2n == Domain(2 * n)
    IN
    IF ~domain.ok \/ ~domain_2n.ok
    THEN [ok |-> FALSE, msg |-> "valid domain"]
    ELSE
    LET f_poly == poly_f(domain, z, r)
        g_poly == poly_g(domain, z, alpha, beta)
        f_commitment == commit_g1(powers, f_poly)
        g_commitment == commit_g1(powers, g_poly)
    IN
    IF ~f_commitment.ok \/ ~g_commitment.ok
    THEN [ok |-> FALSE, msg |-> "degree too large"]
    ELSE
    LET w12 == poly_w1_w2(domain, f_poly, g_poly)
    IN  [ok |-> TRUE, msg |-> "", domain |-> domain, f_poly |-> f_poly, g_poly |-> g_poly,
         f_commitment |-> f_commitment.c, g_commitment |-> g_commitment.c,
         w1_poly |-> w12[1], w2_poly |-> w12[2],
         w3_poly |-> poly_w3(domain, domain_2n, g_poly)]

\* the rest of RangeProof::new: transcript, challenges, quotient, openings.
\* fresh = the scalars the oracle answers with where it was not queried before
NewFinish(st, n, powers, fresh) ==
    IF ~st.ok THEN NewAbort(st.msg, hasher_new) ELSE
    LET domain == st.domain
        f_poly == st.f_poly
        g_poly == st.g_poly
        h1 == hasher_update(hasher_new, PROOF_DOMAIN_SEP)
        h2 == hasher_update(h1, n)
        h3 == hasher_update(h2, domain.group_gen)
        h4 == hasher_update(h3, st.f_commitment)
        h5 == hasher_update(h4, st.g_commitment)
        tau == next_scalar(h5, "tau", fresh[1])
        h6 == hasher_squeeze(h5, "tau")
        rho == next_scalar(h6, "rho", fresh[2])
        h7 == hasher_squeeze(h6, "rho")
        aggregation_challenge == next_scalar(h7, "aggregation_challenge", fresh[3])
        h8 == hasher_squeeze(h7, "aggregation_challenge")
        quot == poly_quotient(domain, st.w1_poly, st.w2_poly, st.w3_poly, tau)
    IN
    IF ~quot.ok THEN
        [ok |-> FALSE, msg |-> "remainder poly should be zero", proof |-> NoProof,
         hasher |-> h8, chal |-> << tau, rho, aggregation_challenge >>,
         keys |-> << h6, h7, h8 >>]
    ELSE
    LET q_poly == quot.q
        q_commitment == commit_g1(powers, q_poly)
        rho_omega == FMul(rho, domain.group_gen)
        g_eval == Evaluate(g_poly, rho)
        g_omega_eval == Evaluate(g_poly, rho_omega)
        w_cap_poly == poly_w_cap(domain, f_poly, q_poly, rho)
        w_cap_eval == Evaluate(w_cap_poly, rho)
        shifted_witness_poly == kzg_witness(g_poly, rho_omega)
        shifted_proof == commit_g1(powers, shifted_witness_poly)
        aggregate_witness_poly ==
            kzg_aggregate_witness(<< g_poly, w_cap_poly >>, rho, aggregation_challenge)
        aggregate_proof == commit_g1(powers, aggregate_witness_poly)
    IN
    IF ~q_commitment.ok \/ ~shifted_proof.ok \/ ~aggregate_proof.ok
    THEN [ok |-> FALSE, msg |-> "degree too large", proof |-> NoProof,
          hasher |-> h8, chal |-> << tau, rho, aggregation_challenge >>,
          keys |-> << h6, h7, h8 >>]
    ELSE
    [ok |-> TRUE, msg |-> "",
     proof |->
        [evaluations |-> [g |-> g_eval, g_omega |-> g_omega_eval, w_cap |-> w_cap_eval],
         commitments |-> [f |-> st.f_commitment, g |-> st.g_commitment,
                          q |-> q_commitment.c],
         proofs |-> [aggregate |-> aggregate_proof.c, shifted |-> shifted_proof.c]],
     hasher |-> h8, chal |-> << tau, rho, aggregation_challenge >>,
     keys |-> << h6, h7, h8 >>]

RangeProofNew(z, n, powers, r, alpha, beta, fresh) ==
    NewFinish(NewPolys(z, n, powers, r, alpha, beta), n, powers, fresh)

verify_result_inverted(sum, w_cap_eval, aggregation_kzg_check, shifted_kzg_check) ==
    IF sum = w_cap_eval THEN FALSE ELSE aggregation_kzg_check /\ shifted_kzg_check

verify_result_unshifted(sum, w_cap_eval, aggregation_kzg_check, shifted_kzg_check) ==
    IF sum # w_cap_eval THEN FALSE ELSE aggregation_kzg_check

\* the early return on the evaluation sum and the final conjunction of verify
verify_result(sum, w_cap_eval, aggregation_kzg_check, shifted_kzg_check) ==
    IF sum # w_cap_eval THEN FALSE ELSE aggregation_kzg_check /\ shifted_kzg_check

RangeProofVerify(self, n, powers, fresh) ==
    LET domain == Domain(n) IN
    IF ~domain.ok
    THEN [ok |-> FALSE, msg |-> "valid domain", verdict |-> FALSE, hasher |-> hasher_new,
          chal |-> << >>, keys |-> << >>]
    ELSE
    LET h1 == hasher_update(hasher_new, PROOF_DOMAIN_SEP)
        h2 == hasher_update(h1, n)
        h3 == hasher_update(h2, domain.group_gen)
        h4 == hasher_update(h3, self.commitments.f)
        h5 == hasher_update(h4, self.commitments.g)
        tau == next_scalar(h5, "tau", fresh[1])
        h6 == hasher_squeeze(h5, "tau")
        rho == next_scalar(h6, "rho", fresh[2])
        h7 == hasher_squeeze(h6, "rho")
        aggregation_challenge == next_scalar(h7, "aggregation_challenge", fresh[3])
        h8 == hasher_squeeze(h7, "aggregation_challenge")
        w_cap_commitment ==
            utils_w_cap(domain.size, self.commitments.f, self.commitments.q, rho)
        sum == w1_w2_w3_evals_sum(domain, self.evaluations.g, self.evaluations.g_omega,
                                  rho, tau)
        aggregate_poly_commitment ==
            aggregate(<< self.commitments.g, w_cap_commitment >>, aggregation_challenge)
        aggregate_value ==
            aggregate(<< self.evaluations.g, self.evaluations.w_cap >>, aggregation_challenge)
        aggregation_kzg_check ==
            verify_scalar(self.proofs.aggregate, aggregate_poly_commitment, rho,
                          aggregate_value, powers)
        rho_omega == FMul(rho, domain.group_gen)
        shifted_kzg_check ==
            verify_scalar(self.proofs.shifted, self.commitments.g, rho_omega,
                          self.evaluations.g_omega, powers)
    IN  [ok |-> TRUE, msg |-> "",
         verdict |-> verify_result(sum, self.evaluations.w_cap, aggregation_kzg_check,
                                   shifted_kzg_check),
         hasher |-> h8, chal |-> << tau, rho, aggregation_challenge >>,
         keys |-> << h6, h7, h8 >>]

\* ------------------------------------------------------------------------
\* The range-proof machine: setup, prove, (forge a field), verify
\* ------------------------------------------------------------------------
\* range parameters: F has the domains of size n and 2n for each of them, 3
\* is rounded to the domain of 4, and F holds witnesses beyond 2^n
NSet == {2, 3, 4}
Blind == 0 .. MaxBlind
\* answers of the oracle: 0, 1 (a point of every domain) and 2 (a point of no
\* domain of NSet)
Chal == {0, 1, 2}
\* trapdoor of the setup
SrsTaus == {3}

\* what the oracle may answer to the queries keys: its earlier answer where
\* it has one, any scalar of Chal otherwise
Answers(keys) ==
    IF keys = << >> THEN { << 0, 0, 0 >> }
    ELSE { a \in Chal \X Chal \X Chal :
            \A i \in 1 .. 3 : keys[i] \in DOMAIN oracle => a[i] = oracle[keys[i]] }

\* a decryption key is sampled; no range proof is in use
EGInit ==
    /\ eg_pc = "keygen"
    /\ sk \in F
    /\ cipher = NoCipher /\ plain = 0 /\ nonce = 0 /\ terms = 0
    /\ key = 0 /\ decrypted = 0 /\ exponent = 0
    /\ oracle = << >> /\ rp_pc = "off" /\ rp_n = 0 /\ rp_z = 0 /\ rnd = << 0, 0, 0 >>
    /\ srs_tau = 0 /\ proof = NoProof /\ abort_msg = "" /\ prover_hasher = << >>
    /\ verifier_hasher = << >> /\ p_chal = << >> /\ v_chal = << >> /\ v_n = 0
    /\ v_len = 0 /\ verdict = FALSE /\ forged = FALSE

\* the setup, the witness and the rng draws of a range proof; no ElGamal key
\* is in use
RPInit ==
    /\ oracle = << >>
    /\ rp_pc = "setup"
    /\ rp_n \in NSet
    /\ rp_z \in F
    /\ rnd \in Blind \X Blind \X Blind
    /\ srs_tau \in SrsTaus
    /\ proof = NoProof /\ abort_msg = "" /\ prover_hasher = << >>
    /\ verifier_hasher = << >> /\ p_chal = << >> /\ v_chal = << >> /\ v_n = 0
    /\ v_len = 0 /\ verdict = FALSE /\ forged = FALSE
    /\ eg_pc = "off" /\ sk = 0 /\ cipher = NoCipher /\ plain = 0 /\ nonce = 0
    /\ terms = 0 /\ key = 0 /\ decrypted = 0 /\ exponent = 0

\* a single witness and blinding, for the runs that vary the record and the
\* arguments of verify
RPInitOne ==
    /\ oracle = << >>
    /\ rp_pc = "setup"
    /\ rp_n \in NSet
    /\ rp_z = 1
    /\ rnd = << 1, 1, 1 >>
    /\ srs_tau \in SrsTaus
    /\ proof = NoProof /\ abort_msg = "" /\ prover_hasher = << >>
    /\ verifier_hasher = << >> /\ p_chal = << >> /\ v_chal = << >> /\ v_n = 0
    /\ v_len = 0 /\ verdict = FALSE /\ forged = FALSE
    /\ eg_pc = "off" /\ sk = 0 /\ cipher = NoCipher /\ plain = 0 /\ nonce = 0
    /\ terms = 0 /\ key = 0 /\ decrypted = 0 /\ exponent = 0

\* RangeProof::new(z, n, &unsafe_setup(tau, 4 * n), rng)
New ==
    /\ rp_pc = "setup"
    /\ \E powers \in {unsafe_setup(srs_tau, 4 * rp_n)} :
       \E st \in {NewPolys(rp_z, rp_n, powers, rnd[1], rnd[2], rnd[3])} :
       \E fresh \in Chal \X Chal \X Chal :
       \E res \in {NewFinish(st, rp_n, powers, fresh)} :
            /\ res.chal \in {fresh, << >>}
            /\ rp_pc' = IF res.ok THEN "proved" ELSE "aborted"
            /\ proof' = res.proof
            /\ abort_msg' = res.msg
            /\ prover_hasher' = res.hasher
            /\ p_chal' = res.chal
            /\ oracle' = OracleWith(res.keys, res.chal)
    /\ UNCHANGED << rp_n, rp_z, rnd, srs_tau, verifier_hasher, v_chal, v_n, v_len,
                    verdict, forged >>
    /\ UNCHANGED egvars

FieldNames == { << "evaluations", "g" >>, << "evaluations", "g_omega" >>,
                << "evaluations", "w_cap" >>, << "commitments", "f" >>,
                << "commitments", "g" >>, << "commitments", "q" >>,
                << "proofs", "aggregate" >>, << "proofs", "shifted" >> }

\* all fields of the record are public: a caller can hand verify any record
Forge ==
    /\ rp_pc = "proved" /\ ~forged
    /\ \E fld \in FieldNames :
        proof' = [proof EXCEPT ![fld[1]][fld[2]] = FAdd(@, 1)]
    /\ forged' = TRUE
    /\ UNCHANGED << oracle, rp_pc, rp_n, rp_z, rnd, srs_tau, abort_msg, prover_hasher,
                    verifier_hasher, p_chal, v_chal, v_n, v_len, verdict >>
    /\ UNCHANGED egvars

\* proof.verify(n, &unsafe_setup(tau, len))
VerifyWith(n, len) ==
    /\ rp_pc = "proved"
    /\ \E powers \in {unsafe_setup(srs_tau, len)} :
       \E probe \in {RangeProofVerify(proof, n, powers, << 0, 0, 0 >>)} :
       \E fresh \in Answers(probe.keys) :
       \E res \in {RangeProofVerify(proof, n, powers, fresh)} :
            /\ rp_pc' = IF res.ok THEN "verified" ELSE "vaborted"
            /\ verdict' = res.verdict
            /\ abort_msg' = res.msg
            /\ verifier_hasher' = res.hasher
            /\ v_chal' = res.chal
            /\ oracle' = OracleWith(res.keys, res.chal)
    /\ v_n' = n
    /\ v_len' = len
    /\ UNCHANGED << rp_n, rp_z, rnd, srs_tau, proof, prover_hasher, p_chal, forged >>
    /\ UNCHANGED egvars

\* the verifier is given the range parameter and the setup of the prover
VerifySame == VerifyWith(rp_n, 4 * rp_n)

\* the verifier is given any range parameter and a setup of any length
Verify == \E n \in NSet : \E len \in {1, 4 * n - 1, 4 * n} : VerifyWith(n, len)

SpecRange == RPInit /\ [][New \/ VerifySame]_vars

SpecVerifier == RPInitOne /\ [][New \/ Forge \/ Verify]_vars

SpecElGamal ==
    EGInit /\ [][Encrypt \/ AddRight \/ AddLeft \/ DecryptExp \/ Decrypt]_vars


\* ------------------------------------------------------------------------
\* Properties
\* ------------------------------------------------------------------------
\* the integers of [0, 2^U32_BITS) whose multiple of the generator is p
Preimages(p) == { m \in 0 .. (2 ^ U32_BITS - 1) : ScalarMul(GEN, m) = p }

\* C1: decrypting an encryption of m < 2^32 under the matching key returns m,
\* which is the smallest exponent of the decrypted point, the largest
\* plaintext 2^32 - 1 included
C1_RoundTrip ==
    (eg_pc = "done" /\ key = sk /\ plain < 2 ^ U32_BITS) =>
        /\ exponent = plain
        /\ exponent \in Preimages(decrypted)
        /\ \A m \in Preimages(decrypted) : exponent <= m

C1_Witness ==
    /\ eg_pc = "done" /\ key = sk /\ terms = 1 /\ nonce # 0 /\ sk # 0
    /\ plain = 2 ^ U32_BITS - 1
    /\ exponent = plain

\* C2: a sum of ciphertexts, added in any order, has c0 = (sum r_i) g and
\* c1 = (sum m_i) g + (sum r_i) pk, and decrypt_exp under sk gives (sum m_i) g
C2_Homomorphism ==
    /\ eg_pc \in {"cipher", "exp", "done"} =>
        /\ c0(cipher) = ScalarMul(GEN, nonce)
        /\ c1(cipher) = PointAdd(ScalarMul(GEN, plain), ScalarMul(pk, nonce))
    /\ (eg_pc \in {"exp", "done"} /\ key = sk) => decrypted = ScalarMul(GEN, plain)

C2_Witness ==
    /\ eg_pc = "exp" /\ key = sk /\ terms = 2 /\ nonce # 0 /\ sk # 0 /\ plain # 0
    /\ decrypted = ScalarMul(GEN, plain)

\* C3: a failed search returns the bound 2^32, and a successful search never
\* returns that sentinel
C3_Sentinel ==
    eg_pc = "done" =>
        /\ Preimages(decrypted) = {} => exponent = 2 ^ U32_BITS
        /\ Preimages(decrypted) # {} => exponent # 2 ^ U32_BITS

\* C10: decrypt_exp under a key other than sk, of a ciphertext with a
\* non-zero nonce, never gives the plaintext point
C10_WrongKey ==
    (eg_pc \in {"exp", "done"} /\ key # sk /\ nonce # 0) =>
        decrypted # ScalarMul(GEN, plain)

C10_Witness ==
    /\ eg_pc = "exp" /\ terms = 1 /\ nonce # 0 /\ key = FAdd(sk, 1)
    /\ decrypted # ScalarMul(GEN, plain)

IsPowerOfTwo(n) == NextPowerOfTwo(n, 1) = n

C5_OutOfRangeAborts ==
    (rp_pc # "setup" /\ rp_z >= 2 ^ rp_n) =>
        (rp_pc = "aborted" /\ abort_msg = "remainder poly should be zero")

\* the data absorbed by a transcript before the squeeze labelled label
RECURSIVE AbsorbedBefore(_, _)
AbsorbedBefore(hasher, label) ==
    IF hasher = << >> \/ Head(hasher) = << "next_scalar", label >> THEN << >>
    ELSE IF Head(hasher)[1] = "update"
         THEN << Head(hasher)[2] >> \o AbsorbedBefore(Tail(hasher), label)
         ELSE AbsorbedBefore(Tail(hasher), label)

Elements(seq) == { seq[i] : i \in 1 .. Len(seq) }

\* the operations of a transcript without their data
Shape(hasher) ==
    [i \in 1 .. Len(hasher) |->
        IF hasher[i][1] = "update" THEN "update" ELSE hasher[i][2]]

GammaAfterEvaluations(hasher) ==
    LET absorbed == AbsorbedBefore(hasher, "aggregation_challenge")
    IN  /\ Len(absorbed) >= 8
        /\ { proof.evaluations.g, proof.evaluations.g_omega, proof.evaluations.w_cap }
               \subseteq Elements(SubSeq(absorbed, 6, Len(absorbed)))

\* C8: prover and verifier squeeze the aggregation challenge only after the
\* three evaluations were absorbed, and apply the same sequence of operations
C8_GammaAfterEvaluations ==
    /\ rp_pc = "proved" => GammaAfterEvaluations(prover_hasher)
    /\ rp_pc = "verified" =>
        /\ GammaAfterEvaluations(verifier_hasher)
        /\ Shape(verifier_hasher) = Shape(prover_hasher)

\* the three checks of the verifier, from the record, n and the challenges
Check1 ==
    w1_w2_w3_evals_sum(Domain(v_n), proof.evaluations.g, proof.evaluations.g_omega,
                       v_chal[2], v_chal[1]) = proof.evaluations.w_cap

Check2 ==
    LET w_cap_commitment ==
            utils_w_cap(Domain(v_n).size, proof.commitments.f, proof.commitments.q,
                        v_chal[2])
    IN  verify_scalar(proof.proofs.aggregate,
                      PointAdd(proof.commitments.g, ScalarMul(w_cap_commitment, v_chal[3])),
                      v_chal[2],
                      FAdd(proof.evaluations.g, FMul(v_chal[3], proof.evaluations.w_cap)),
                      unsafe_setup(srs_tau, v_len))

Check3 ==
    verify_scalar(proof.proofs.shifted, proof.commitments.g,
                  FMul(v_chal[2], Domain(v_n).group_gen), proof.evaluations.g_omega,
                  unsafe_setup(srs_tau, v_len))

\* C7: verify returns true exactly when the evaluation-sum check and the two
\* pairing checks all hold, and returns false, without aborting, otherwise
C7_Verdict ==
    /\ rp_pc # "vaborted"
    /\ rp_pc = "verified" => (verdict <=> (Check1 /\ Check2 /\ Check3))

C7_Witness ==
    /\ rp_pc = "verified" /\ forged /\ v_n = rp_n
    /\ Check1 /\ Check2 /\ ~Check3 /\ ~verdict

\* C9: verify rejects whenever it is given fewer than 4n G1 powers
C9_ShortSrsRejected ==
    (rp_pc = "verified" /\ v_len < 4 * v_n) => ~verdict

====
